---- MODULE Spec2Model ----
(***************************************************************************)
(* REMODELS: the QRM and sFQRA forecast-combination models                 *)
(* (src/src/remodels/qra/qrm.py, sfqra.py) and the ClippingScaler          *)
(* (src/src/remodels/transformers/VSTransformers/ClippingScaler.py).       *)
(*                                                                         *)
(* Floating-point values are modelled as exact extended rationals <<n,d>>: *)
(* d > 0 is the rational n/d in lowest terms, <<1,0>> is +inf, <<-1,0>> is *)
(* -inf and <<0,0>> is NaN, with the IEEE-754 rules for division by zero   *)
(* and for NaN/inf propagation that numpy applies (it warns, it does not   *)
(* raise).  Rounding is not modelled.                                      *)
(***************************************************************************)
EXTENDS Integers, Sequences, FiniteSets, TLC

VARIABLES
    kind,      \* class of the model instance: "QRM" or "sFQRA"
    XA,        \* the caller's forecast matrix (rows of integers)
    yA,        \* the caller's target vector
    inst,      \* attributes of the model instance (the fitted state)
    call,      \* the last fit/predict call: arguments, what was delegated, outcome
    hist,      \* the last successful fit and the predict calls since
    k,         \* ClippingScaler.k
    tabX,      \* the features table the caller holds
    tabY,      \* the target table the caller holds (or NoTable)
    scall      \* the last scaler call: arguments, outcome and what was returned

vars == <<kind, XA, yA, inst, call, hist, k, tabX, tabY, scall>>
modelVars == <<kind, XA, yA, inst, call, hist>>
scalerVars == <<k, tabX, tabY, scall>>

\* ---------------------------------------------------------------- bounds
MaxCols == 2
MaxVal == 1
MaxAbs == 2
MaxK == 1

\* ------------------------------------------------- floating-point values
NaN == <<0, 0>>
PosInf == <<1, 0>>
NegInf == <<-1, 0>>

Abs(n) == IF n < 0 THEN -n ELSE n

Sign(n) == IF n > 0 THEN 1 ELSE IF n < 0 THEN -1 ELSE 0

RECURSIVE GCD(_, _)
GCD(a, b) == IF b = 0 THEN a ELSE GCD(b, a % b)

\* n/d as a float: lowest terms, positive denominator; x/0 is +-inf, 0/0 is NaN
Norm(n, d) ==
    IF d = 0 THEN <<Sign(n), 0>>
    ELSE LET g == GCD(Abs(n), Abs(d))
             s == IF d < 0 THEN -1 ELSE 1
         IN  <<(s * n) \div g, (s * d) \div g>>

ToF(v) == <<v, 1>>

IsFinite(x) == x[2] # 0

FNeg(a) == <<-a[1], a[2]>>

FAdd(a, b) ==
    IF a[2] = 0 /\ b[2] = 0
    THEN (IF a = b THEN a ELSE NaN)
    ELSE Norm(a[1] * b[2] + b[1] * a[2], a[2] * b[2])

FSub(a, b) == FAdd(a, FNeg(b))

FMul(a, b) == Norm(a[1] * b[1], a[2] * b[2])

FDiv(a, b) == Norm(a[1] * b[2], a[2] * b[1])

IsSquare(n) == \E s \in 0..n : s * s = n

ISqrt(n) == CHOOSE s \in 0..n : s * s = n

\* the square root of a finite non-negative value whose root is rational
FSqrt(a) == <<ISqrt(a[1]), ISqrt(a[2])>>

HasExactSqrt(a) == a[2] > 0 /\ a[1] >= 0 /\ IsSquare(a[1]) /\ IsSquare(a[2])

\* ------------------------------------------------------- vectors, matrices
RECURSIVE FSum(_)
FSum(v) == IF v = <<>> THEN ToF(0) ELSE FAdd(FSum(SubSeq(v, 1, Len(v) - 1)), v[Len(v)])

NCols(X) == IF X = <<>> THEN 0 ELSE Len(X[1])

FRow(row) == [j \in 1..Len(row) |-> ToF(row[j])]

FMatrix(X) == [i \in 1..Len(X) |-> FRow(X[i])]

AllFinite(v) == \A i \in 1..Len(v) : IsFinite(v[i])

AllFiniteM(Z) == \A i \in 1..Len(Z) : AllFinite(Z[i])

\* np.mean of one row
RowMean(row) == FDiv(FSum(row), ToF(Len(row)))

\* the mean squared deviation of a row about m
MeanSqDev(row, m) ==
    FDiv(FSum([j \in 1..Len(row) |-> FMul(FSub(row[j], m), FSub(row[j], m))]),
         ToF(Len(row)))

\* (a singleton set binds a value once instead of re-evaluating its expression)
RowVar(row) == CHOOSE v \in {MeanSqDev(row, m) : m \in {RowMean(row)}} : TRUE

\* np.std of one row (population standard deviation)
RowStd(row) == FSqrt(RowVar(row))

\* the value a 1-D operand contributes at position i under numpy broadcasting
At(v, i) == IF Len(v) = 1 THEN v[1] ELSE v[i]

\* numpy broadcasting of two 1-D shapes
Broadcastable(m, n) == m = n \/ m = 1 \/ n = 1

BLen(m, n) == IF m >= n THEN m ELSE n

\* ------------------------------------------------------------ instance
Unfit == [fitted |-> FALSE, coef |-> <<>>, nfeat |-> 0, factor |-> 0, stats |-> <<>>]

\* coefficients the quantile-regression core may return
Coefs == {<<1, 1>>, <<1, 2>>}

NoCall ==
    [op |-> "none", X |-> <<>>, base |-> <<>>, y |-> <<>>, mean |-> <<>>, std |-> <<>>,
     delegated |-> FALSE, dX |-> <<>>, dy |-> <<>>, outcome |-> "none",
     inner |-> <<>>, result |-> <<>>]

\* -------------------------------------------- QRA (quantile-regression core)
\* QRA.fit(Z, yv): c is the coefficient the solver returns, strict whether the
\* solver rejects non-finite data; the state is committed only on success
QRA_fit(self, Z, yv, c, strict) ==
    IF Len(Z) # Len(yv)
    THEN [outcome |-> "DimensionMismatchError", inst |-> self]
    ELSE IF ~(AllFiniteM(Z) /\ AllFinite(yv))
    THEN (IF strict
          THEN [outcome |-> "NumericalError", inst |-> self]
          ELSE [outcome |-> "ok",
                inst |-> [self EXCEPT !.fitted = TRUE,
                                      !.coef = [j \in 1..NCols(Z) |-> NaN]]])
    ELSE IF \E j \in 1..NCols(Z) : \A i \in 1..Len(Z) : Z[i][j] = ToF(0)
    THEN [outcome |-> "NumericalError", inst |-> self]
    ELSE [outcome |-> "ok",
          inst |-> [self EXCEPT !.fitted = TRUE, !.coef = [j \in 1..NCols(Z) |-> c]]]

\* QRA.predict(Z): the linear combination of Z's columns with the fitted coefficients
QRA_predict(self, Z) ==
    IF ~self.fitted
    THEN [outcome |-> "NotFittedError", result |-> <<>>]
    ELSE IF NCols(Z) # Len(self.coef)
    THEN [outcome |-> "DimensionMismatchError", result |-> <<>>]
    ELSE [outcome |-> "ok",
          result |-> [i \in 1..Len(Z) |->
                        FSum([j \in 1..NCols(Z) |-> FMul(Z[i][j], self.coef[j])])]]

\* ------------------------------------------------- FQRA (factor-reduced QRA)
\* projection of Z onto the stored loadings (one factor, loading on column f)
Project(Z, f) == [i \in 1..Len(Z) |-> <<Z[i][f]>>]

\* the loadings are stored once the regression on the factors has succeeded
FQRA_commit(r, n, f) ==
    IF r.outcome = "ok"
    THEN [outcome |-> "ok", inst |-> [r.inst EXCEPT !.nfeat = n, !.factor = f]]
    ELSE r

\* FQRA.fit(Z, yv): f is the factor the reducer selects
FQRA_fit(self, Z, yv, f, c, strict) ==
    IF strict /\ ~AllFiniteM(Z)
    THEN [outcome |-> "NumericalError", inst |-> self]
    ELSE FQRA_commit(QRA_fit(self, Project(Z, f), yv, c, strict), NCols(Z), f)

\* FQRA.predict(Z): projects onto the loadings stored by fit
FQRA_predict(self, Z) ==
    IF ~self.fitted
    THEN [outcome |-> "NotFittedError", result |-> <<>>]
    ELSE IF NCols(Z) # self.nfeat
    THEN [outcome |-> "DimensionMismatchError", result |-> <<>>]
    ELSE QRA_predict(self, Project(Z, self.factor))

\* ------------------------------------------------------------------ QRM
\* faulty variant of QRM_reduce: keeps the first forecaster instead of averaging
QRM_reduce_first(X) == [i \in 1..Len(X) |-> <<ToF(X[i][1])>>]

\* np.mean(X, axis=1, keepdims=True): the single-column matrix of row means
QRM_reduce(X) == [i \in 1..Len(X) |-> <<RowMean(FRow(X[i]))>>]

\* the call record of QRM.fit and the state it leaves, r being what QRA.fit did
QRM_fit_return(X, y, Xm, r) ==
    [inst |-> r.inst,
     call |-> [NoCall EXCEPT !.op = "fit", !.X = X, !.y = y, !.delegated = TRUE,
                             !.dX = Xm, !.dy = FRow(y), !.outcome = r.outcome]]

QRM_fit_reduced(self, X, y, Xm, c, strict) ==
    QRM_fit_return(X, y, Xm, QRA_fit(self, Xm, FRow(y), c, strict))

\* QRM.fit(X, y)
QRM_fit(self, X, y, c, strict) == QRM_fit_reduced(self, X, y, QRM_reduce(X), c, strict)

\* faulty variant of QRM_predict_return: predict records the width of its input
QRM_predict_return_recording(self, X, Xm, r) ==
    [inst |-> [self EXCEPT !.nfeat = NCols(X)],
     call |-> [NoCall EXCEPT !.op = "predict", !.X = X, !.delegated = TRUE,
                             !.dX = Xm, !.outcome = r.outcome,
                             !.inner = r.result, !.result = r.result]]

QRM_predict_return(self, X, Xm, r) ==
    [inst |-> self,
     call |-> [NoCall EXCEPT !.op = "predict", !.X = X, !.delegated = TRUE,
                             !.dX = Xm, !.outcome = r.outcome,
                             !.inner = r.result, !.result = r.result]]

QRM_predict_reduced(self, X, Xm) == QRM_predict_return(self, X, Xm, QRA_predict(self, Xm))

\* QRM.predict(X)
QRM_predict(self, X) == QRM_predict_reduced(self, X, QRM_reduce(X))

\* ---------------------------------------------------------------- sFQRA
\* (X - mean[:, np.newaxis]) / std[:, np.newaxis]; a zero deviation divides by zero
Standardize(F, mean, std) ==
    [Z |-> [i \in 1..Len(F) |->
              [j \in 1..Len(F[i]) |-> FDiv(FSub(F[i][j], mean[i]), std[i])]],
     mean |-> mean, std |-> std]

\* sFQRA._zscore(X): np.mean and np.std along axis 1, then the standardization
sFQRA_zscore(X) ==
    CHOOSE zs \in {Standardize(F, mean, std) :
                      F \in {FMatrix(X)},
                      mean \in {[i \in 1..Len(X) |-> RowMean(FRow(X[i]))]},
                      std \in {[i \in 1..Len(X) |-> RowStd(FRow(X[i]))]}} : TRUE

\* y = (y - mean) / std, with numpy broadcasting of the 1-D operands
StandardizeTarget(y, mean, std) ==
    [i \in 1..BLen(Len(y), Len(mean)) |->
        FDiv(FSub(ToF(At(y, i)), At(mean, i)), At(std, i))]

\* the call record of sFQRA.fit and the state it leaves, r being what FQRA.fit did
FitReturn(here, zs, ys, r) ==
    [inst |-> r.inst,
     call |-> [here EXCEPT !.delegated = TRUE, !.dX = zs.Z, !.dy = ys,
                           !.outcome = r.outcome]]

FitDelegate(self, here, zs, ys, f, c, strict) ==
    FitReturn(here, zs, ys, FQRA_fit(self, zs.Z, ys, f, c, strict))

\* faulty variant of sFQRA_fit: keeps the row statistics on the instance before
\* the inner fit has succeeded
sFQRA_fit_eager(self, X, y, zs, f, c, strict) ==
    IF ~Broadcastable(Len(y), Len(zs.mean))
    THEN [inst |-> [self EXCEPT !.stats = <<zs.mean, zs.std>>],
          call |-> [NoCall EXCEPT !.op = "fit", !.X = X, !.y = y, !.mean = zs.mean,
                                  !.std = zs.std, !.outcome = "ValueError"]]
    ELSE FitDelegate([self EXCEPT !.stats = <<zs.mean, zs.std>>],
                     [NoCall EXCEPT !.op = "fit", !.X = X, !.y = y, !.mean = zs.mean,
                                    !.std = zs.std],
                     zs, StandardizeTarget(y, zs.mean, zs.std), f, c, strict)

\* sFQRA.fit(X, y), zs being the value of self._zscore(X)
sFQRA_fit(self, X, y, zs, f, c, strict) ==
    IF ~Broadcastable(Len(y), Len(zs.mean))
    THEN [inst |-> self,
          call |-> [NoCall EXCEPT !.op = "fit", !.X = X, !.y = y, !.mean = zs.mean,
                                  !.std = zs.std, !.outcome = "ValueError"]]
    ELSE FitDelegate(self,
                     [NoCall EXCEPT !.op = "fit", !.X = X, !.y = y, !.mean = zs.mean,
                                    !.std = zs.std],
                     zs, StandardizeTarget(y, zs.mean, zs.std), f, c, strict)

\* faulty variant of Destandardize: the mean is added back, the deviation forgotten
Destandardize_unscaled(yhat, mean, std) ==
    [i \in 1..Len(yhat) |-> FAdd(yhat[i], mean[i])]

\* y * std + mean
Destandardize(yhat, mean, std) ==
    [i \in 1..Len(yhat) |-> FAdd(FMul(yhat[i], std[i]), mean[i])]

PredictReturn(self, X, zs, r) ==
    [inst |-> self,
     call |-> [NoCall EXCEPT !.op = "predict", !.X = X, !.mean = zs.mean,
                             !.std = zs.std, !.delegated = TRUE, !.dX = zs.Z,
                             !.outcome = r.outcome, !.inner = r.result,
                             !.result = IF r.outcome = "ok"
                                        THEN Destandardize(r.result, zs.mean, zs.std)
                                        ELSE <<>>]]

\* faulty variant of sFQRA_predict: keeps the row statistics of the call on the
\* instance
sFQRA_predict_caching(self, X, zs) ==
    PredictReturn([self EXCEPT !.stats = <<zs.mean, zs.std>>], X, zs,
                  FQRA_predict(self, zs.Z))

\* sFQRA.predict(X), zs being the value of self._zscore(X)
sFQRA_predict(self, X, zs) == PredictReturn(self, X, zs, FQRA_predict(self, zs.Z))

\* ---------------------------------------------------------------- inputs
Vals == 0..MaxVal

\* the caller's data: one observation of up to MaxCols forecasters
Matrices == UNION {[1..1 -> [1..c -> Vals]] : c \in 1..MaxCols}

Targets == UNION {[1..n -> Vals] : n \in 1..2}

\* a matrix whose row deviations are exactly representable
Exact(X) == \A i \in 1..Len(X) : HasExactSqrt(RowVar(FRow(X[i])))

\* the same forecasts on another scale
Scale(X) == [i \in 1..Len(X) |-> [j \in 1..Len(X[i]) |-> 2 * X[i][j]]]

\* one more observation (the last one on another scale)
Stack(X) == X \o Scale(<<X[Len(X)]>>)

\* another number of forecasters
ColChange(X) ==
    IF NCols(X) > 1
    THEN [i \in 1..Len(X) |-> SubSeq(X[i], 1, NCols(X) - 1)]
    ELSE [i \in 1..Len(X) |-> X[i] \o X[i]]

FitInputs == {XA, Stack(XA)}

PredictInputs == {XA, Stack(XA), Scale(XA), ColChange(XA)}

Perms(n) == {p \in [1..n -> 1..n] : \A a, b \in 1..n : p[a] = p[b] => a = b}

Permute(X, p) == [i \in 1..Len(X) |-> [j \in 1..Len(X[i]) |-> X[i][p[j]]]]

\* whether the collaborators reject non-finite data is not known here: both
\* behaviours are explored where the data can be non-finite (a constant row)
ConstantRow(X) == \E i \in 1..Len(X) : \A j \in 1..Len(X[i]) : X[i][j] = X[i][1]

SolverChecks(X) == IF kind = "sFQRA" /\ ConstantRow(X) THEN BOOLEAN ELSE {TRUE}

\* ------------------------------------------------------------- history
\* the last successful fit: the state it committed, its arguments, the target it
\* delegated, how many predict calls followed it (2 stands for two or more), and
\* what the first of them on the caller's own matrix XA returned (again: XA was
\* predicted once more after that)
NoMemo == [set |-> FALSE, again |-> FALSE, outcome |-> "none", result |-> <<>>]

NoHist ==
    [inst |-> Unfit, X |-> <<>>, y |-> <<>>, ys |-> <<>>, preds |-> 0, memo |-> NoMemo]

AfterFit(r, X) ==
    IF r.call.outcome = "ok"
    THEN [inst |-> r.inst, X |-> X, y |-> r.call.y, ys |-> r.call.dy, preds |-> 0,
          memo |-> NoMemo]
    ELSE hist

AfterPredict(r) ==
    [hist EXCEPT !.preds = IF hist.preds = 0 THEN 1 ELSE 2,
                 !.memo = IF r.call.X # XA THEN hist.memo
                          ELSE IF hist.memo.set THEN [hist.memo EXCEPT !.again = TRUE]
                          ELSE [set |-> TRUE, again |-> FALSE,
                                outcome |-> r.call.outcome, result |-> r.call.result]]

\* ---------------------------------------------------------------- actions
FitQRM ==
    /\ kind = "QRM"
    /\ \E X \in FitInputs, c \in Coefs :
         \E p \in Perms(NCols(X)), strict \in SolverChecks(X) :
            \E r \in {QRM_fit(inst, Permute(X, p), yA, c, strict)} :
                /\ inst' = r.inst
                /\ call' = [r.call EXCEPT !.base = X]
                /\ hist' = AfterFit(r, X)
    /\ UNCHANGED <<kind, XA, yA, scalerVars>>

PredictQRM ==
    /\ kind = "QRM"
    /\ \E X \in PredictInputs :
         \E p \in Perms(NCols(X)) :
            \E r \in {QRM_predict(inst, Permute(X, p))} :
                /\ inst' = r.inst
                /\ call' = [r.call EXCEPT !.base = X]
                /\ hist' = AfterPredict(r)
    /\ UNCHANGED <<kind, XA, yA, scalerVars>>

FitSFQRA ==
    /\ kind = "sFQRA"
    /\ \E X \in FitInputs :
         \E zs \in {sFQRA_zscore(X)} :
            \E c \in Coefs, f \in 1..NCols(X), strict \in SolverChecks(X) :
               \E r \in {sFQRA_fit(inst, X, yA, zs, f, c, strict)} :
                  /\ inst' = r.inst
                  /\ call' = [r.call EXCEPT !.base = X]
                  /\ hist' = AfterFit(r, X)
    /\ UNCHANGED <<kind, XA, yA, scalerVars>>

PredictSFQRA ==
    /\ kind = "sFQRA"
    /\ \E X \in PredictInputs :
         \E zs \in {sFQRA_zscore(X)} :
            \E r \in {sFQRA_predict(inst, X, zs)} :
               /\ inst' = r.inst
               /\ call' = [r.call EXCEPT !.base = X]
               /\ hist' = AfterPredict(r)
    /\ UNCHANGED <<kind, XA, yA, scalerVars>>

\* ================================================================ scalers
\* the default threshold of ClippingScaler.__init__
DefaultK == 3

Ks == (-MaxK..MaxK) \cup {DefaultK}

\* data values: integers of magnitude up to MaxAbs, and NaN
Cells == {ToF(v) : v \in -MaxAbs..MaxAbs} \cup {NaN}

\* None
NoTable == [labeled |-> FALSE, cols |-> <<>>, index |-> <<>>, values |-> <<>>]

\* an unlabeled array
Array(values) == [NoTable EXCEPT !.values = values]

\* a labeled table (a DataFrame)
Frame(cols, index, values) ==
    [labeled |-> TRUE, cols |-> cols, index |-> index, values |-> values]

IndexLabels == {<<"r0">>, <<"d1">>}

\* features: one observation of two columns, labeled or not
XTables ==
    LET vals == {<<<<a, b>>>> : a, b \in Cells}
    IN  {Array(v) : v \in vals}
            \cup {Frame(<<"a", "b">>, i, v) : i \in IndexLabels, v \in vals}

\* targets: one observation of one column
YTables == {Frame(<<"y">>, i, <<<<a>>>>) : i \in IndexLabels, a \in Cells}

\* the labels pandas gives a table built from bare values
RangeLabels(n) == SubSeq(<<"0", "1", "2">>, 1, n)

\* comparisons with NaN are false
FGt(a, b) == IsFinite(a) /\ IsFinite(b) /\ a[1] * b[2] > b[1] * a[2]

FAbs(a) == <<Abs(a[1]), a[2]>>

FSign(a) == IF a = NaN THEN NaN ELSE ToF(Sign(a[1]))

\* np.maximum and np.minimum propagate NaN
FMax(a, b) == IF a = NaN \/ b = NaN THEN NaN ELSE IF FGt(b, a) THEN b ELSE a

FMin(a, b) == IF a = NaN \/ b = NaN THEN NaN ELSE IF FGt(a, b) THEN b ELSE a

\* ------------------------------------------------------------ BaseScaler
\* BaseScaler._to_dataframe(original, transformed): the values under the labels of
\* the original; what it returns for an original without labels is not specified:
\* wrap says whether the values come back as a table with default labels
BaseScaler_to_dataframe(original, transformed, wrap) ==
    IF original.labeled
    THEN Frame(original.cols, original.index, transformed)
    ELSE IF wrap /\ transformed # <<>>
    THEN Frame(RangeLabels(Len(transformed[1])), RangeLabels(Len(transformed)),
               transformed)
    ELSE Array(transformed)

NoSCall ==
    [op |-> "none", X |-> NoTable, y |-> NoTable, outX |-> NoTable, outY |-> NoTable,
     pair |-> FALSE, ret |-> "none", outcome |-> "none", prev |-> "none"]

\* BaseScaler.fit(X, y): returns self
BaseScaler_fit(X, y) ==
    [NoSCall EXCEPT !.op = "fit", !.X = X, !.y = y, !.ret = "self", !.outcome = "ok"]

\* faulty variant of BaseScaler_transform: the base hands its input back
BaseScaler_transform_identity(X, y) ==
    [NoSCall EXCEPT !.op = "transform", !.X = X, !.y = y, !.outX = X, !.outY = y,
                    !.ret = "tables", !.outcome = "ok"]

\* BaseScaler.transform(X, y): not implemented on the base
BaseScaler_transform(X, y) ==
    [NoSCall EXCEPT !.op = "transform", !.X = X, !.y = y,
                    !.outcome = "NotImplementedError"]

\* BaseScaler.fit_transform(X, y): fit, then transform
BaseScaler_fit_transform(X, y) ==
    IF BaseScaler_fit(X, y).outcome = "ok"
    THEN [BaseScaler_transform(X, y) EXCEPT !.op = "fit_transform"]
    ELSE [BaseScaler_fit(X, y) EXCEPT !.op = "fit_transform", !.ret = "none"]

\* -------------------------------------------------------- ClippingScaler
\* ClippingScaler.fit(X, y): returns self
ClippingScaler_fit(X, y) ==
    [NoSCall EXCEPT !.op = "fit", !.X = X, !.y = y, !.ret = "self", !.outcome = "ok"]

\* faulty variant of ClipValue: the comparison without np.abs
ClipValue_upper(kk, v) == IF FGt(v, ToF(kk)) THEN FMul(ToF(kk), FSign(v)) ELSE v

\* np.where(np.abs(data) > self.k, self.k * np.sign(data), data), one value
ClipValue(kk, v) == IF FGt(FAbs(v), ToF(kk)) THEN FMul(ToF(kk), FSign(v)) ELSE v

\* ClippingScaler._clip_data(data)
ClippingScaler_clip_data(kk, values) ==
    [i \in 1..Len(values) |-> [j \in 1..Len(values[i]) |-> ClipValue(kk, values[i][j])]]

\* faulty variant of ClippingScaler_transform: the target is labeled after X
ClippingScaler_transform_xlabels(kk, X, y, wrap) ==
    IF y # NoTable
    THEN [NoSCall EXCEPT
            !.op = "transform", !.X = X, !.y = y, !.outcome = "ok", !.ret = "tables",
            !.pair = TRUE,
            !.outX = BaseScaler_to_dataframe(X, ClippingScaler_clip_data(kk, X.values), wrap),
            !.outY = BaseScaler_to_dataframe(X, ClippingScaler_clip_data(kk, y.values), wrap)]
    ELSE [NoSCall EXCEPT
            !.op = "transform", !.X = X, !.y = y, !.outcome = "ok", !.ret = "tables",
            !.outX = BaseScaler_to_dataframe(X, ClippingScaler_clip_data(kk, X.values), wrap)]

\* ClippingScaler.transform(X, y)
ClippingScaler_transform(kk, X, y, wrap) ==
    IF y # NoTable
    THEN [NoSCall EXCEPT
            !.op = "transform", !.X = X, !.y = y, !.outcome = "ok", !.ret = "tables",
            !.pair = TRUE,
            !.outX = BaseScaler_to_dataframe(X, ClippingScaler_clip_data(kk, X.values), wrap),
            !.outY = BaseScaler_to_dataframe(y, ClippingScaler_clip_data(kk, y.values), wrap)]
    ELSE [NoSCall EXCEPT
            !.op = "transform", !.X = X, !.y = y, !.outcome = "ok", !.ret = "tables",
            !.outX = BaseScaler_to_dataframe(X, ClippingScaler_clip_data(kk, X.values), wrap)]

\* faulty variant of NpClip: the lower bound is zero
NpClip_lowerZero(table, lo, hi) ==
    [i \in 1..Len(table.values) |->
        [j \in 1..Len(table.values[i]) |-> FMin(FMax(table.values[i][j], ToF(0)), hi)]]

\* np.clip(data, lo, hi): numpy computes minimum(maximum(data, lo), hi) on an array;
\* on a labeled table it is DataFrame.clip, which orders its two scalar bounds first
NpClip(table, lo, hi) ==
    IF table.labeled /\ FGt(lo, hi)
    THEN [i \in 1..Len(table.values) |->
            [j \in 1..Len(table.values[i]) |-> FMin(FMax(table.values[i][j], hi), lo)]]
    ELSE [i \in 1..Len(table.values) |->
            [j \in 1..Len(table.values[i]) |-> FMin(FMax(table.values[i][j], lo), hi)]]

\* ClippingScaler.inverse_transform(X, y)
ClippingScaler_inverse_transform(kk, X, y, wrap) ==
    [NoSCall EXCEPT
        !.op = "inverse_transform", !.X = X, !.y = y, !.outcome = "ok", !.ret = "tables",
        !.pair = TRUE,
        !.outX = BaseScaler_to_dataframe(
                    X, IF X # NoTable THEN NpClip(X, ToF(-kk), ToF(kk)) ELSE <<>>, wrap),
        !.outY = BaseScaler_to_dataframe(
                    y, IF y # NoTable THEN NpClip(y, ToF(-kk), ToF(kk)) ELSE <<>>, wrap)]

\* what _to_dataframe may do with an original that carries no labels
Wraps(X, y) == IF X.labeled /\ (y = NoTable \/ y.labeled) THEN {FALSE} ELSE BOOLEAN

\* the call that returned the tables the caller now holds ("none": the raw data)
Producer ==
    IF scall.op \in {"transform", "inverse_transform"} /\ scall.outcome = "ok"
    THEN scall.op
    ELSE scall.prev

\* ---------------------------------------------------------------- actions
BaseFit ==
    /\ kind = "BaseScaler"
    /\ scall' = [BaseScaler_fit(tabX, tabY) EXCEPT !.prev = Producer]
    /\ UNCHANGED <<k, tabX, tabY, modelVars>>

BaseTransform ==
    /\ kind = "BaseScaler"
    /\ scall' = [BaseScaler_transform(tabX, tabY) EXCEPT !.prev = Producer]
    /\ UNCHANGED <<k, tabX, tabY, modelVars>>

BaseFitTransform ==
    /\ kind = "BaseScaler"
    /\ scall' = [BaseScaler_fit_transform(tabX, tabY) EXCEPT !.prev = Producer]
    /\ UNCHANGED <<k, tabX, tabY, modelVars>>

ClipFit ==
    /\ kind = "ClippingScaler"
    /\ scall' = [ClippingScaler_fit(tabX, tabY) EXCEPT !.prev = Producer]
    /\ UNCHANGED <<k, tabX, tabY, modelVars>>

\* the caller goes on with the tables the call returned
ClipTransform ==
    /\ kind = "ClippingScaler"
    /\ \E wrap \in Wraps(tabX, tabY) :
         \E r \in {ClippingScaler_transform(k, tabX, tabY, wrap)} :
            /\ scall' = [r EXCEPT !.prev = Producer]
            /\ tabX' = r.outX
            /\ tabY' = r.outY
    /\ UNCHANGED <<k, modelVars>>

ClipInverseTransform ==
    /\ kind = "ClippingScaler"
    /\ \E wrap \in Wraps(tabX, tabY) :
         \E r \in {ClippingScaler_inverse_transform(k, tabX, tabY, wrap)} :
            /\ scall' = [r EXCEPT !.prev = Producer]
            /\ tabX' = r.outX
            /\ tabY' = r.outY
    /\ UNCHANGED <<k, modelVars>>

\* ------------------------------------------------------- specifications
InitModel ==
    /\ kind \in {"QRM", "sFQRA"}
    /\ XA \in {X \in Matrices : Exact(X)}
    /\ yA \in Targets
    /\ inst = Unfit
    /\ call = NoCall
    /\ hist = NoHist
    /\ k = DefaultK
    /\ tabX = NoTable
    /\ tabY = NoTable
    /\ scall = NoSCall

InitScaler ==
    /\ kind \in {"BaseScaler", "ClippingScaler"}
    /\ k \in IF kind = "ClippingScaler" THEN Ks ELSE {DefaultK}
    /\ tabX \in XTables
    /\ tabY \in YTables \cup {NoTable}
    /\ scall = NoSCall
    /\ XA = <<>>
    /\ yA = <<>>
    /\ inst = Unfit
    /\ call = NoCall
    /\ hist = NoHist

NextModel == FitQRM \/ PredictQRM \/ FitSFQRA \/ PredictSFQRA

NextScaler ==
    \/ BaseFit \/ BaseTransform \/ BaseFitTransform
    \/ ClipFit \/ ClipTransform \/ ClipInverseTransform

\* the QRM and sFQRA models
Spec == InitModel /\ [][NextModel]_vars

\* the scalers
SpecScaler == InitScaler /\ [][NextScaler]_vars

\* ================================================================ properties
RowMeans(X) == [i \in 1..Len(X) |-> RowMean(FRow(X[i]))]

RowStds(X) == [i \in 1..Len(X) |-> RowStd(FRow(X[i]))]

HasZeroStd(std) == \E i \in 1..Len(std) : std[i] = ToF(0)

\* C1: in sFQRA.fit and sFQRA.predict, a row of X with zero standard deviation
\* ends the call in a numerical error, and nothing is delegated to the inner FQRA
C1_ZeroStdIsNumericalError ==
    (kind = "sFQRA" /\ call.op \in {"fit", "predict"} /\ HasZeroStd(call.std))
        => (call.outcome = "NumericalError" /\ ~call.delegated)

\* C2: the row statistics a sFQRA.predict call uses, to standardize X and to
\* de-standardize the result, are those of the X of this call, and the instance
\* never holds row statistics
C2_PredictUsesOwnStatistics ==
    kind = "sFQRA" =>
        /\ inst.stats = <<>>
        /\ call.op = "predict" =>
             LET m == RowMeans(call.X)
                 d == RowStds(call.X)
             IN  /\ call.mean = m
                 /\ call.std = d
                 /\ call.dX = [i \in 1..Len(call.X) |->
                                 [j \in 1..Len(call.X[i]) |->
                                    FDiv(FSub(ToF(call.X[i][j]), m[i]), d[i])]]
                 /\ call.outcome = "ok" =>
                      call.result = [i \in 1..Len(call.inner) |->
                                        FAdd(FMul(call.inner[i], d[i]), m[i])]

\* a successful predict, after an earlier one, on a matrix whose row deviations
\* differ from those of the fitted matrix
C2_Witness ==
    /\ kind = "sFQRA" /\ call.op = "predict" /\ call.outcome = "ok"
    /\ hist.preds = 2
    /\ Len(call.X) = Len(hist.X)
    /\ ~HasZeroStd(call.std)
    /\ \A i \in 1..Len(call.X) : call.std[i] # RowStd(FRow(hist.X[i]))

\* C3: for every permutation of X's columns, QRM.fit and QRM.predict delegate the
\* single-column matrix of the row means of the unpermuted X (and y unchanged), a
\* successful fit leaves the state the fit of the unpermuted X leaves, and predict
\* returns what the core returns for the row means of the unpermuted X
C3_QRMPermutationInvariant ==
    (kind = "QRM" /\ call.op \in {"fit", "predict"}) =>
        LET means == [i \in 1..Len(call.base) |-> <<RowMean(FRow(call.base[i]))>>]
        IN  /\ call.delegated
            /\ call.dX = means
            /\ call.op = "fit" =>
                 /\ call.dy = FRow(call.y)
                 /\ call.outcome = QRA_fit(Unfit, means, FRow(call.y), <<1, 1>>, TRUE).outcome
                 /\ call.outcome = "ok" =>
                      inst = QRA_fit(Unfit, means, FRow(call.y), inst.coef[1], TRUE).inst
            /\ call.op = "predict" =>
                 /\ call.outcome = QRA_predict(inst, means).outcome
                 /\ call.result = QRA_predict(inst, means).result

\* a successful QRM.predict on a matrix whose columns were really exchanged, after
\* a fit
C3_Witness ==
    /\ kind = "QRM" /\ call.op = "predict" /\ call.outcome = "ok"
    /\ call.X # call.base
    /\ RowMean(FRow(call.X[1])) # ToF(call.X[1][1])

\* C4: predict leaves the state of a fitted QRM or sFQRA instance as the last
\* successful fit left it, and predict on the same X returns what the first
\* predict on that X returned
C4_PredictDoesNotMutate ==
    (call.op = "predict" /\ hist.inst.fitted) =>
        /\ inst = hist.inst
        /\ (call.X = XA /\ hist.memo.set) =>
              /\ call.outcome = hist.memo.outcome
              /\ call.result = hist.memo.result

\* a second successful predict on the same matrix
C4_Witness ==
    /\ call.op = "predict" /\ call.outcome = "ok" /\ call.X = XA
    /\ hist.memo.again
    /\ hist.preds = 2

\* C5: a QRM.fit or sFQRA.fit that fails leaves the instance state exactly as it
\* was before the call
C5_FitIsTransactional ==
    [][(call'.op = "fit" /\ call'.outcome # "ok") => inst' = inst]_vars

\* a failed fit on an instance that an earlier fit had fitted
C5_Witness ==
    /\ call.op = "fit" /\ call.outcome # "ok"
    /\ inst.fitted
    /\ inst = hist.inst

\* C10: sFQRA.fit delegates y standardized row for row with the mean and deviation
\* of X's rows, and when X has no zero-deviation row and the inner prediction
\* equals the standardized target of the fit, fit(X, y).predict(X) returns y
C10_RoundTripRecoversTarget ==
    kind = "sFQRA" =>
        /\ (call.op = "fit" /\ call.delegated) =>
              LET m == RowMeans(call.X)
                  d == RowStds(call.X)
              IN  call.dy = [i \in 1..BLen(Len(call.y), Len(call.X)) |->
                                FDiv(FSub(ToF(At(call.y, i)), At(m, i)), At(d, i))]
        /\ (/\ call.op = "predict" /\ call.outcome = "ok"
            /\ call.X = hist.X
            /\ Len(hist.y) = Len(call.X)
            /\ ~HasZeroStd(call.std)
            /\ call.inner = hist.ys)
              => call.result = FRow(hist.y)

\* predict on the fitted two-row matrix, the inner prediction being the
\* standardized target
C10_Witness ==
    /\ kind = "sFQRA" /\ call.op = "predict" /\ call.outcome = "ok"
    /\ call.X = hist.X
    /\ Len(call.X) = 2
    /\ Len(hist.y) = 2
    /\ ~HasZeroStd(call.std)
    /\ call.inner = hist.ys
    /\ call.result # call.inner

\* ------------------------------------------------------ scaler properties
InRange(v, kk) == IsFinite(v) /\ ~FGt(v, ToF(kk)) /\ ~FGt(ToF(-kk), v)

AllInRange(table, kk) ==
    \A i \in 1..Len(table.values) :
        \A j \in 1..Len(table.values[i]) : InRange(table.values[i][j], kk)

\* every value that is not NaN in the input is within [-kk, kk] in the output
ClippedInto(in, out, kk) ==
    \A i \in 1..Len(in.values) :
        \A j \in 1..Len(in.values[i]) :
            in.values[i][j] # NaN => InRange(out.values[i][j], kk)

HasCell(table, P(_)) ==
    \E i \in 1..Len(table.values) :
        \E j \in 1..Len(table.values[i]) : P(table.values[i][j])

\* C6 (as stated): for any data and any threshold k, every value ClippingScaler.transform
\* returns, for X and for y when given, lies in [-k, k]
C6_OutputWithinAnyK ==
    (kind = "ClippingScaler" /\ scall.op = "transform") =>
        /\ AllInRange(scall.outX, k)
        /\ scall.y # NoTable => AllInRange(scall.outY, k)

\* C6 (amended): for a threshold k >= 0, every value ClippingScaler.transform
\* returns, for X and for y when given, lies in [-k, k], a NaN of the input apart
C6_OutputWithinNonNegativeK ==
    (kind = "ClippingScaler" /\ scall.op = "transform" /\ k >= 0) =>
        /\ ClippedInto(scall.X, scall.outX, k)
        /\ scall.y # NoTable => ClippedInto(scall.y, scall.outY, k)

\* a transform with k >= 0 of features and a target that both exceed k
C6_Witness ==
    /\ kind = "ClippingScaler" /\ scall.op = "transform" /\ k >= 0
    /\ scall.y # NoTable
    /\ HasCell(scall.X, LAMBDA v : FGt(FAbs(v), ToF(k)))
    /\ HasCell(scall.y, LAMBDA v : FGt(FAbs(v), ToF(k)))

C8_BaseScalerContract ==
    kind = "BaseScaler" =>
        /\ scall.op \in {"transform", "fit_transform"} =>
              /\ scall.outcome = "NotImplementedError"
              /\ scall.ret = "none"
              /\ scall.outX = NoTable /\ scall.outY = NoTable
        /\ scall.op = "fit" => (scall.outcome = "ok" /\ scall.ret = "self")

\* fit_transform on the base scaler with labeled features and a target
C8_Witness ==
    /\ kind = "BaseScaler" /\ scall.op = "fit_transform"
    /\ scall.X.labeled /\ scall.y # NoTable

Carries(original, out, values) ==
    original.labeled =>
        /\ out.labeled
        /\ out.cols = original.cols
        /\ out.index = original.index
        /\ out.values = values

\* C9: a table ClippingScaler.transform or inverse_transform returns for a labeled
\* input has the column labels and the index of that input over the transformed
\* values, for X and for y, with or without y
C9_LabelsPreserved ==
    (kind = "ClippingScaler" /\ scall.op \in {"transform", "inverse_transform"}) =>
        LET T(table) == IF scall.op = "transform"
                        THEN [i \in 1..Len(table.values) |->
                                [j \in 1..Len(table.values[i]) |->
                                    ClipValue(k, table.values[i][j])]]
                        ELSE NpClip(table, ToF(-k), ToF(k))
        IN  /\ Carries(scall.X, scall.outX, T(scall.X))
            /\ scall.y # NoTable => Carries(scall.y, scall.outY, T(scall.y))
            /\ scall.y = NoTable => scall.outY = NoTable

\* a call with labeled features and a labeled target whose index differs
C9_Witness ==
    /\ kind = "ClippingScaler" /\ scall.op = "transform"
    /\ scall.X.labeled /\ scall.y.labeled
    /\ scall.X.index # scall.y.index

\* a call with labeled features and no target
C9_WitnessNoTarget ==
    /\ kind = "ClippingScaler" /\ scall.op = "inverse_transform"
    /\ scall.X.labeled /\ scall.y = NoTable

====
